---- MODULE Spec2Model ----
(***************************************************************************)
(* Doc Customizer (React front end) as a state machine.  The repository    *)
(* holds two versions of the App component:                                *)
(*   Spec      src/src/App.js: upload, reorder, remove, export, merge;     *)
(*   ProtoSpec src/unnamed/part_000: upload with progressive thumbnails,   *)
(*             reorder, export.                                            *)
(* DragSpec is onDragEnd alone on records of more pages; ProtoIngestSpec   *)
(* is the prototype's uploads, rendering and selection with more records,  *)
(* and ProtoFairSpec adds the fairness of its promise continuations.       *)
(* Every asynchronous handler is cut at its awaits: one action per         *)
(* continuation.  The external components (pdf-lib, pdf.js) are the        *)
(* environment: each open either fails or reports a page count, each copy, *)
(* save or render either fails or succeeds.                                *)
(***************************************************************************)
EXTENDS Integers, Sequences, FiniteSets, TLC

\* ---------------------------------------------------------------- bounds
\* Largest page count the document component reports for a buffer.
MaxPages == 2
\* Number of file records created in one behaviour (uploads and merges).
MaxIds == 3
\* Largest number of files picked in one upload.
MaxBatch == 2
\* Number of file records created in one behaviour of the prototype.
MaxProtoIds == 2
\* Number of file records created in one behaviour of ingestion alone.
MaxIngestIds == 3
\* Largest number of handleFiles calls of the prototype in flight at once.
MaxCalls == 2
\* Largest page count of a record of the reorder specification.
MaxDragPages == 4

\* ---------------------------------------------------------------- state
VARIABLES
  fileItems,      \* useState([]): sequence of file records, list order
  selectedIndex,  \* useState(null): Null or a 0-based position
  nextId,         \* number of ids handed out so far (ids are unique)
  up,             \* the handleFiles call in flight
  exp,            \* the exportReordered call in flight
  mrg,            \* the mergeSelectedFiles call in flight
  renders,        \* the thumbnail rendering tasks in flight (part_000)
  last            \* what the last handler step did that the user can see

vars == <<fileItems, selectedIndex, nextId, up, exp, mrg, renders, last>>

\* selectedIndex === null
Null == -1

\* The ref mirrors the committed list (the effect runs after every commit).
fileItemsRef == fileItems

\* ------------------------------------------------------------- helpers
\* JavaScript arrays are 0-based: arr[i], undefined when out of range.
Has(arr, i) == i # Null /\ i >= 0 /\ i < Len(arr)
At(arr, i) == arr[i + 1]

\* arr.splice(i, 1) on a copy: the array without position i.
SpliceOut(arr, i) ==
  IF i >= 0 /\ i < Len(arr)
  THEN SubSeq(arr, 1, i) \o SubSeq(arr, i + 2, Len(arr))
  ELSE arr

\* arr.splice(i, 0, x) on a copy: x inserted at position i (clamped).
SpliceIn(arr, i, x) ==
  LET j == IF i > Len(arr) THEN Len(arr) ELSE i
  IN SubSeq(arr, 1, j) \o <<x>> \o SubSeq(arr, j + 1, Len(arr))

\* Mutant of NaturalPages: the pages are pushed from the last to the first.
NaturalPagesDescending(n) == [i \in 1..n |-> [pageNumber |-> n + 1 - i]]

\* for (let i = 1; i <= n; i++) pages.push({ pageNumber: i })
NaturalPages(n) == [i \in 1..n |-> [pageNumber |-> i]]

\* Mutant of PageIndices: the indices of the natural order, whatever the
\* current order of the pages.
PageIndicesNatural(pages) == [i \in 1..Len(pages) |-> i - 1]

\* Mutant of PageIndices: a page without preview has no valid index.
PageIndicesOfRendered(pages) ==
  [i \in 1..Len(pages) |->
     IF pages[i].thumb = <<>> THEN -1 ELSE pages[i].pageNumber - 1]

\* item.pages.map(p => Number.isFinite(n) ? n - 1 : -1)
PageIndices(pages) ==
  [i \in 1..Len(pages) |->
     IF pages[i].pageNumber \in Int THEN pages[i].pageNumber - 1 ELSE -1]

\* pageIndices.some(i => i < 0)
SomeNegative(indices) == \E i \in 1..Len(indices) : indices[i] < 0

\* Mutant of OutOfRange: the index equal to the page count is let through.
OutOfRangeOffByOne(indices, srcPageCount) ==
  \E i \in 1..Len(indices) : indices[i] < 0 \/ indices[i] > srcPageCount

\* indices.find(i => i < 0 || i >= srcPageCount) !== undefined
OutOfRange(indices, srcPageCount) ==
  \E i \in 1..Len(indices) : indices[i] < 0 \/ indices[i] >= srcPageCount

\* newPdf.copyPages(src, indices): the pages of src at indices, in that order.
CopyPages(bytes, indices) ==
  [i \in 1..Len(indices) |-> <<bytes, indices[i]>>]

\* fileItems.filter(f => f.selectedForMerge)
RECURSIVE Flagged(_)
Flagged(items) ==
  IF items = <<>> THEN <<>>
  ELSE (IF Head(items).selectedForMerge THEN <<Head(items)>> ELSE <<>>)
       \o Flagged(Tail(items))

\* ---------------------------------------------- what the user is shown
NoSave == [kind |-> "none", id |-> 0, pages |-> <<>>]
Saved(kind, id, pages) == [kind |-> kind, id |-> id, pages |-> pages]
\* A step that shows an alert or offers a download (or neither).
Ev(alert, save) ==
  [op |-> "step", a |-> -1, b |-> -1, alert |-> alert, save |-> save]
\* The alerts of the files over MAX_FILE_SIZE_BYTES met in a row: how many.
TooLarge(big) ==
  [op |-> "step", a |-> big, b |-> -1, alert |-> "too large", save |-> NoSave]
\* A user gesture; a confirmed removeFile carries its index and the
\* selected index it found.
Gesture(op, a, b) ==
  [op |-> op, a |-> a, b |-> b, alert |-> "none", save |-> NoSave]

\* ----------------------------------------------------------- the tasks
UpIdle == [pc |-> "idle", left |-> 0]
ExpIdle == [pc |-> "idle", id |-> 0, bytes |-> 0, shown |-> <<>>,
            pageIndices |-> <<>>, srcPageCount |-> 0, newPdf |-> <<>>]
MrgIdle == [pc |-> "idle", selected |-> <<>>, len |-> 0, k |-> 0,
            indices |-> <<>>, srcPageCount |-> 0, mergedPdf |-> <<>>,
            outLen |-> 0]

\* Records still to be created by the calls in flight.
Pending == up.left + (IF mrg.pc # "idle" THEN 1 ELSE 0)

Init ==
  /\ fileItems = <<>>
  /\ selectedIndex = Null
  /\ nextId = 0
  /\ up = UpIdle
  /\ exp = ExpIdle
  /\ mrg = MrgIdle
  /\ renders = {}
  /\ last = Ev("none", NoSave)

\* ------------------------------------------------------------- upload
\* handleFiles up to the first await: the size check of each file, then
\* the read of the first file that passes it.
\* Mutant of UploadAdvance: the first file over the ceiling ends the batch.
UploadAdvanceBreaking(left) ==
  \E big \in 0..left :
    /\ up' = IF big > 0 \/ left - big = 0 THEN UpIdle
             ELSE [pc |-> "read", left |-> left - big]
    /\ last' = IF big > 0 THEN TooLarge(1) ELSE Ev("none", NoSave)

UploadAdvance(left) ==
  \E big \in 0..left :
    /\ up' = IF left - big = 0 THEN UpIdle
             ELSE [pc |-> "read", left |-> left - big]
    /\ last' = IF big > 0 THEN TooLarge(big) ELSE Ev("none", NoSave)

HandleFiles(n) ==
  /\ up.pc = "idle"
  /\ nextId + Pending + n <= MaxIds
  /\ IF n = 0
     THEN /\ last' = Ev("none", NoSave)
          /\ UNCHANGED up
     ELSE UploadAdvance(n)
  /\ UNCHANGED <<fileItems, selectedIndex, nextId, exp, mrg, renders>>

\* await readAsUint8Array(f) settles.
UploadRead ==
  /\ up.pc = "read"
  /\ \/ /\ up' = [up EXCEPT !.pc = "load"]
        /\ last' = Ev("none", NoSave)
     \/ UploadAdvance(up.left - 1)
  /\ UNCHANGED <<fileItems, selectedIndex, nextId, exp, mrg, renders>>

\* The record built for a file of totalPages pages.
NewItem(id, totalPages) ==
  [id |-> id, name |-> "upload", bytes |-> id, pages |-> NaturalPages(totalPages),
   totalPages |-> totalPages, selectedForMerge |-> FALSE]

\* setSelectedIndex(prev => prev === null ? 0 : prev)
SelectFirstIfNone(prev) == IF prev = Null THEN 0 ELSE prev

\* await PDFDocument.load(bytes) settles: the page count, the record, the
\* two state updates, then on to the next file.
UploadLoaded ==
  /\ up.pc = "load"
  /\ \/ /\ UploadAdvance(up.left - 1)
        /\ UNCHANGED <<fileItems, selectedIndex, nextId>>
     \/ \E totalPages \in 0..MaxPages :
          IF totalPages <= 0
          THEN /\ UploadAdvance(up.left - 1)
               /\ UNCHANGED <<fileItems, selectedIndex, nextId>>
          ELSE /\ fileItems' = Append(fileItems, NewItem(nextId + 1, totalPages))
               /\ selectedIndex' = SelectFirstIfNone(selectedIndex)
               /\ nextId' = nextId + 1
               /\ UploadAdvance(up.left - 1)
  /\ UNCHANGED <<exp, mrg, renders>>

\* ------------------------------------------------- selection for merge
ToggleSelectForMerge(idx) ==
  /\ fileItems' =
       IF ~Has(fileItems, idx) THEN fileItems
       ELSE [fileItems EXCEPT ![idx + 1].selectedForMerge = ~@]
  /\ last' = Ev("none", NoSave)
  /\ UNCHANGED <<selectedIndex, nextId, up, exp, mrg, renders>>

SelectAllForMerge ==
  /\ fileItems' = [i \in 1..Len(fileItems) |->
                     [fileItems[i] EXCEPT !.selectedForMerge = TRUE]]
  /\ last' = Ev("none", NoSave)
  /\ UNCHANGED <<selectedIndex, nextId, up, exp, mrg, renders>>

ClearAllSelection ==
  /\ fileItems' = [i \in 1..Len(fileItems) |->
                     [fileItems[i] EXCEPT !.selectedForMerge = FALSE]]
  /\ last' = Ev("none", NoSave)
  /\ UNCHANGED <<selectedIndex, nextId, up, exp, mrg, renders>>

\* onClick={() => setSelectedIndex(i)} of a file button
SelectFile(i) ==
  /\ Has(fileItems, i)
  /\ selectedIndex' = i
  /\ last' = Ev("none", NoSave)
  /\ UNCHANGED <<fileItems, nextId, up, exp, mrg, renders>>

\* -------------------------------------------------------------- remove
\* Mutant of SelectionAfterRemove: the removed index stays selected even
\* when it was the last position.
SelectionAfterRemoveUnclamped(prevSel, idx, len) ==
  IF prevSel = Null THEN Null
  ELSE IF idx < prevSel THEN prevSel - 1
  ELSE IF idx = prevSel /\ len - 1 <= 0 THEN Null
  ELSE prevSel

\* Mutant of SelectionAfterRemove: a removal below the selected index does
\* not shift it.
SelectionAfterRemoveUnshifted(prevSel, idx, len) ==
  IF prevSel = Null THEN Null
  ELSE IF idx = prevSel
       THEN LET newLength == len - 1
            IN IF newLength <= 0 THEN Null
               ELSE IF idx <= newLength - 1 THEN idx
               ELSE newLength - 1
  ELSE prevSel

\* The updater of setSelectedIndex in removeFile; len is fileItems.length
\* of the render the handler belongs to.
SelectionAfterRemove(prevSel, idx, len) ==
  IF prevSel = Null THEN Null
  ELSE IF idx < prevSel THEN prevSel - 1
  ELSE IF idx = prevSel
       THEN LET newLength == len - 1
            IN IF newLength <= 0 THEN Null
               ELSE IF idx <= newLength - 1 THEN idx
               ELSE newLength - 1
  ELSE prevSel

RemoveFile(idx, ok) ==
  /\ IF idx = Null \/ ~Has(fileItems, idx) \/ ~ok
     THEN /\ UNCHANGED <<fileItems, selectedIndex>>
          /\ last' = Gesture("removeFileNoop", Null, Null)
     ELSE /\ fileItems' = SpliceOut(fileItems, idx)
          /\ selectedIndex' = SelectionAfterRemove(selectedIndex, idx, Len(fileItems))
          /\ last' = Gesture("removeFile", idx, selectedIndex)
  /\ UNCHANGED <<nextId, up, exp, mrg, renders>>

\* ------------------------------------------------------------- reorder
\* Mutant of MovePage: the moved page is inserted without being removed.
MovePageKeepingSource(pages, source, destination) ==
  SpliceIn(pages, destination, At(pages, source))

\* Mutant of MovePage: the pages at source and destination change places.
MovePageSwapping(pages, source, destination) ==
  [i \in 1..Len(pages) |->
     IF i = source + 1 THEN At(pages, destination)
     ELSE IF i = destination + 1 THEN At(pages, source)
     ELSE pages[i]]

\* The two splices of onDragEnd: remove at source, insert at destination.
MovePage(pages, source, destination) ==
  SpliceIn(SpliceOut(pages, source), destination, At(pages, source))

\* result.destination is NoDestination when the gesture was cancelled.
NoDestination == -1

\* Mutant of OnDragEnd: the record is rebuilt from its pages and loses its
\* merge flag.
OnDragEndUnflagging(source, destination) ==
  /\ fileItems' =
       IF destination = NoDestination THEN fileItems
       ELSE IF selectedIndex = Null THEN fileItems
       ELSE IF ~Has(fileItems, selectedIndex) THEN fileItems
       ELSE [fileItems EXCEPT ![selectedIndex + 1] =
               [@ EXCEPT !.pages = MovePage(@, source, destination),
                         !.selectedForMerge = FALSE]]
  /\ last' = Gesture(IF destination = NoDestination THEN "onDragEndNoDestination"
                     ELSE "onDragEnd", Null, Null)
  /\ UNCHANGED <<selectedIndex, nextId, up, exp, mrg, renders>>

\* Mutant of OnDragEnd: a gesture without destination drops the page at the
\* front.
OnDragEndDroppingInFront(source, destination) ==
  /\ fileItems' =
       IF selectedIndex = Null THEN fileItems
       ELSE IF ~Has(fileItems, selectedIndex) THEN fileItems
       ELSE [fileItems EXCEPT ![selectedIndex + 1].pages =
               MovePage(@, source,
                        IF destination = NoDestination THEN 0 ELSE destination)]
  /\ last' = Gesture(IF destination = NoDestination THEN "onDragEndNoDestination"
                     ELSE "onDragEnd", Null, Null)
  /\ UNCHANGED <<selectedIndex, nextId, up, exp, mrg, renders>>

OnDragEnd(source, destination) ==
  /\ fileItems' =
       IF destination = NoDestination THEN fileItems
       ELSE IF selectedIndex = Null THEN fileItems
       ELSE IF ~Has(fileItems, selectedIndex) THEN fileItems
       ELSE [fileItems EXCEPT ![selectedIndex + 1].pages =
                                 MovePage(@, source, destination)]
  /\ last' = Gesture(IF destination = NoDestination THEN "onDragEndNoDestination"
                     ELSE "onDragEnd", Null, Null)
  /\ UNCHANGED <<selectedIndex, nextId, up, exp, mrg, renders>>

\* The positions the drag-and-drop list can report: those of the pages shown.
ShownPositions ==
  IF Has(fileItems, selectedIndex)
  THEN 0..(Len(At(fileItems, selectedIndex).pages) - 1)
  ELSE {0}

\* -------------------------------------------------------------- export
\* The catch block of exportReordered: the alert, then the original bytes.
ExportCatch(message) ==
  /\ last' = Ev(message,
                Saved("original", exp.id, <<>>))
  /\ exp' = ExpIdle

\* An early return of exportReordered: the alert and nothing else.
ExportReturn(alert) ==
  /\ last' = Ev(alert, NoSave)
  /\ exp' = ExpIdle

\* exportReordered(idx) up to its first await, PDFDocument.load(srcBytes).
ExportReordered(idx) ==
  /\ exp.pc = "idle"
  /\ IF idx = Null \/ ~Has(fileItemsRef, idx)
     THEN ExportReturn("No file selected.")
     ELSE LET item == At(fileItemsRef, idx)
              pageIndices == PageIndices(item.pages)
          IN IF Len(item.pages) = 0
             THEN ExportReturn("No page data found.")
             ELSE IF SomeNegative(pageIndices)
             THEN ExportReturn("Export failed: invalid page numbers.")
             ELSE /\ exp' = [pc |-> "load", id |-> item.id, bytes |-> item.bytes,
                             shown |-> At(fileItems, selectedIndex).pages,
                             pageIndices |-> pageIndices, srcPageCount |-> 0,
                             newPdf |-> <<>>]
                  /\ last' = Ev("none", NoSave)
  /\ UNCHANGED <<fileItems, selectedIndex, nextId, up, mrg, renders>>

\* PDFDocument.load settles: the range check against the re-derived count.
ExportLoaded ==
  /\ exp.pc = "load"
  /\ \/ ExportCatch("Export failed: load error. Offering original file as fallback.")
     \/ \E srcPageCount \in 0..MaxPages :
          IF OutOfRange(exp.pageIndices, srcPageCount)
          THEN ExportReturn("Export failed: requested page does not exist in source")
          ELSE /\ exp' = [exp EXCEPT !.pc = "create",
                                      !.srcPageCount = srcPageCount]
               /\ last' = Ev("none", NoSave)
  /\ UNCHANGED <<fileItems, selectedIndex, nextId, up, mrg, renders>>

\* PDFDocument.create settles; copyPages(existingPdf, pageIndices) is called.
ExportCreated ==
  /\ exp.pc = "create"
  /\ exp' = [exp EXCEPT !.pc = "copy"]
  /\ last' = Ev("none", NoSave)
  /\ UNCHANGED <<fileItems, selectedIndex, nextId, up, mrg, renders>>

\* copyPages settles: the copied pages are added in order, then save.
ExportCopied ==
  /\ exp.pc = "copy"
  /\ \/ ExportCatch("Export failed: copy error. Offering original file as fallback.")
     \/ LET copied == CopyPages(exp.bytes, exp.pageIndices)
        IN IF Len(copied) = 0
           THEN ExportReturn("Export failed: unable to copy pages from source PDF.")
           ELSE /\ exp' = [exp EXCEPT !.pc = "save", !.newPdf = copied]
                /\ last' = Ev("none", NoSave)
  /\ UNCHANGED <<fileItems, selectedIndex, nextId, up, mrg, renders>>

\* Mutant of EmptyOutput: a zero-byte result is let through.
EmptyOutputAccepted(outLen) == FALSE

\* !outLen || outLen === 0
EmptyOutput(outLen) == outLen = 0

\* Byte lengths the serializer can return: nothing, or something.
OutLens == {0, 1}

\* save settles: a throw or zero bytes goes to the catch block, anything
\* else is downloaded as customized-<name>.
ExportSaved ==
  /\ exp.pc = "save"
  /\ \/ ExportCatch("Export failed: save error. Offering original file as fallback.")
     \/ \E outLen \in OutLens :
          IF EmptyOutput(outLen)
          THEN ExportCatch("Export failed: Generated PDF is empty. Offering original file as fallback.")
          ELSE /\ last' = Ev("none", Saved("customized", exp.id, exp.newPdf))
               /\ exp' = ExpIdle
  /\ UNCHANGED <<fileItems, selectedIndex, nextId, up, mrg, renders>>

\* --------------------------------------------------------------- merge
\* The catch block of mergeSelectedFiles.
MergeCatch(message) ==
  /\ last' = Ev(message, NoSave)
  /\ mrg' = MrgIdle

\* Mutant of TooFewToMerge: one flagged record is enough.
TooFewToMergeOffByOne(selected) == Len(selected) < 1

\* selected.length < 2
TooFewToMerge(selected) == Len(selected) < 2

\* mergeSelectedFiles up to its first await, PDFDocument.create().
MergeSelectedFiles(ok) ==
  /\ mrg.pc = "idle"
  /\ nextId + Pending + 1 <= MaxIds
  /\ LET selected == Flagged(fileItems)
     IN IF TooFewToMerge(selected)
        THEN /\ last' = Ev("Select at least 2 files to merge.", NoSave)
             /\ UNCHANGED mrg
        ELSE IF ~ok
        THEN /\ last' = Ev("none", NoSave)
             /\ UNCHANGED mrg
        ELSE /\ mrg' = [pc |-> "create", selected |-> selected,
                        len |-> Len(fileItems), k |-> 0,
                        indices |-> <<>>, srcPageCount |-> 0,
                        mergedPdf |-> <<>>, outLen |-> 0]
             /\ last' = Ev("none", NoSave)
  /\ UNCHANGED <<fileItems, selectedIndex, nextId, up, exp, renders>>

\* PDFDocument.create settles; the loop opens the first selected file.
MergeCreated ==
  /\ mrg.pc = "create"
  /\ mrg' = [mrg EXCEPT !.pc = "load", !.k = 1]
  /\ last' = Ev("none", NoSave)
  /\ UNCHANGED <<fileItems, selectedIndex, nextId, up, exp, renders>>

\* indicesToCopy of one file: its page order, or all pages when it has none.
IndicesToCopy(f, srcPageCount) ==
  IF Len(f.pages) > 0 THEN PageIndices(f.pages)
  ELSE [i \in 1..srcPageCount |-> i - 1]

\* PDFDocument.load(srcBytes) of selected[k] settles: the defensive check.
MergeLoaded ==
  /\ mrg.pc = "load"
  /\ \/ MergeCatch("Merge failed: load error")
     \/ \E srcPageCount \in 0..MaxPages :
          LET indicesToCopy == IndicesToCopy(mrg.selected[mrg.k], srcPageCount)
          IN IF OutOfRange(indicesToCopy, srcPageCount)
             THEN /\ last' = Ev("Merge aborted: invalid page index", NoSave)
                  /\ mrg' = MrgIdle
             ELSE /\ mrg' = [mrg EXCEPT !.pc = "copy", !.indices = indicesToCopy,
                                         !.srcPageCount = srcPageCount]
                  /\ last' = Ev("none", NoSave)
  /\ UNCHANGED <<fileItems, selectedIndex, nextId, up, exp, renders>>

\* Mutant of AddPages: the copied pages go in front of those already there.
AddPagesInFront(mergedPdf, copied) == copied \o mergedPdf

\* for (const p of copied) mergedPdf.addPage(p)
AddPages(mergedPdf, copied) == mergedPdf \o copied

\* copyPages settles: the pages are added, then the next file or the save.
MergeCopied ==
  /\ mrg.pc = "copy"
  /\ \/ MergeCatch("Merge failed: copy error")
     \/ /\ mrg' = [mrg EXCEPT
                     !.mergedPdf = AddPages(@, CopyPages(mrg.selected[mrg.k].bytes,
                                                         mrg.indices)),
                     !.indices = <<>>,
                     !.srcPageCount = 0,
                     !.pc = IF mrg.k < Len(mrg.selected) THEN "load" ELSE "save",
                     !.k = IF mrg.k < Len(mrg.selected) THEN mrg.k + 1 ELSE mrg.k]
        /\ last' = Ev("none", NoSave)
  /\ UNCHANGED <<fileItems, selectedIndex, nextId, up, exp, renders>>

\* mergedPdf.save settles; on success the output is re-opened to count pages.
MergeSaved ==
  /\ mrg.pc = "save"
  /\ \/ MergeCatch("Merge failed: save error")
     \/ \E outLen \in OutLens :
          IF EmptyOutput(outLen)
          THEN MergeCatch("Merge failed: Merged PDF is empty.")
          ELSE /\ mrg' = [mrg EXCEPT !.pc = "reload", !.outLen = outLen]
               /\ last' = Ev("none", NoSave)
  /\ UNCHANGED <<fileItems, selectedIndex, nextId, up, exp, renders>>

\* The record wrapped around the merged bytes.
MergedItem(id, mergedPages) ==
  [id |-> id, name |-> "merged", bytes |-> id, pages |-> mergedPages,
   totalPages |-> Len(mergedPages), selectedForMerge |-> FALSE]

\* setSelectedIndex((_) => fileItems.length): fileItems is the list of the
\* render in which the merge was requested.
SelectionAfterMerge(closureLength, currentLength) == closureLength

\* PDFDocument.load(outBytes) settles (a failure leaves no pages): the
\* record is appended, selected, downloaded and announced.
MergeReloaded ==
  /\ mrg.pc = "reload"
  /\ \E mergedCount \in 0..MaxPages :
       fileItems' = Append(fileItems, MergedItem(nextId + 1, NaturalPages(mergedCount)))
  /\ selectedIndex' = SelectionAfterMerge(mrg.len, Len(fileItems))
  /\ nextId' = nextId + 1
  /\ last' = Ev("Merged files and added to list.",
                Saved("merged", nextId + 1, mrg.mergedPdf))
  /\ mrg' = MrgIdle
  /\ UNCHANGED <<up, exp, renders>>

\* ------------------------------------------------------- specification
Next ==
  \/ \E n \in 0..MaxBatch : HandleFiles(n)
  \/ UploadRead
  \/ UploadLoaded
  \/ \E i \in 0..Len(fileItems) : ToggleSelectForMerge(i)
  \/ SelectAllForMerge
  \/ ClearAllSelection
  \/ \E i \in 0..Len(fileItems) : SelectFile(i)
  \/ \E i \in {selectedIndex} \cup (0..Len(fileItems)), ok \in BOOLEAN : RemoveFile(i, ok)
  \/ \E s \in ShownPositions, d \in ShownPositions \cup {NoDestination} : OnDragEnd(s, d)
  \/ ExportReordered(selectedIndex)
  \/ ExportLoaded
  \/ ExportCreated
  \/ ExportCopied
  \/ ExportSaved
  \/ \E ok \in BOOLEAN : MergeSelectedFiles(ok)
  \/ MergeCreated
  \/ MergeLoaded
  \/ MergeCopied
  \/ MergeSaved
  \/ MergeReloaded

Spec == Init /\ [][Next]_vars

\* ------------------------------------------- the reorder surface alone
\* onDragEnd applied to lists of one or two uploaded records of up to
\* MaxDragPages pages, with one of them selected, and to the empty list.
DragInit ==
  /\ fileItems \in
       {<<>>}
       \cup {<<NewItem(1, n)>> : n \in 1..MaxDragPages}
       \cup {<<NewItem(1, n), NewItem(2, m)>> : n, m \in 1..MaxDragPages}
  /\ selectedIndex \in
       IF fileItems = <<>> THEN {Null} ELSE 0..(Len(fileItems) - 1)
  /\ nextId = Len(fileItems)
  /\ up = UpIdle
  /\ exp = ExpIdle
  /\ mrg = MrgIdle
  /\ renders = {}
  /\ last = Ev("none", NoSave)

DragNext ==
  \E s \in ShownPositions, d \in ShownPositions \cup {NoDestination} : OnDragEnd(s, d)

DragSpec == DragInit /\ [][DragNext]_vars

\* ================================================== src/unnamed/part_000
\* The prototype: records carry thumbs and a rendering flag; there is no
\* removal and no merge.  onSelect, onDragEnd and the continuations of
\* exportReordered are the actions above (the code is the same).

\* thumb: null
NoThumb == <<>>

\* renderThumbForPage(bytes, p): the image of page p of the buffer.
RenderThumbForPage(bytes, p) == <<bytes, p>>

\* console.error("Thumbnail rendering error for", ...): the record and the
\* number of its pages rendered before.
ThumbErr(id, done) ==
  [op |-> "thumbErr", a |-> id, b |-> done, alert |-> "none", save |-> NoSave]

\* The handleFiles calls in flight, oldest first (nothing stops the user
\* from picking files again while a batch is being read).
ProtoInit ==
  /\ fileItems = <<>>
  /\ selectedIndex = Null
  /\ nextId = 0
  /\ up = <<>>
  /\ exp = ExpIdle
  /\ mrg = MrgIdle
  /\ renders = {}
  /\ last = Ev("none", NoSave)

\* Files the calls in flight have still to go through.
RECURSIVE ProtoPending(_)
ProtoPending(calls) ==
  IF calls = <<>> THEN 0 ELSE Head(calls).left + ProtoPending(Tail(calls))

\* The record built for a file of totalPages pages: placeholders, rendering.
ProtoItem(id, totalPages) ==
  [id |-> id, name |-> "upload", bytes |-> id,
   pages |-> [i \in 1..totalPages |-> [pageNumber |-> i, thumb |-> NoThumb]],
   isRendering |-> TRUE]

\* Mutant of FindIndex: the first record of the list, whatever its id.
FindIndexOfFirst(items, id) == IF Len(items) > 0 THEN 0 ELSE -1

\* copy.findIndex(ci => ci && ci.id === id): a 0-based position, or -1.
FindIndex(items, id) ==
  IF \E i \in 1..Len(items) : items[i].id = id
  THEN (CHOOSE i \in 1..Len(items) :
          /\ items[i].id = id
          /\ \A j \in 1..(i - 1) : items[j].id # id) - 1
  ELSE -1

\* Mutant of ProgressiveUpdate: the thumbs go to the first positions of the
\* sequence, in order.
ProgressiveUpdateByPosition(items, id, thumbs, stillRendering) ==
  LET idx == FindIndex(items, id)
  IN IF idx = -1 THEN items
     ELSE [items EXCEPT ![idx + 1] =
             [@ EXCEPT
                !.pages = [i \in 1..Len(@) |->
                             IF i <= Len(thumbs)
                             THEN [pageNumber |-> @[i].pageNumber,
                                   thumb |-> thumbs[i]]
                             ELSE @[i]],
                !.isRendering = stillRendering]]

\* Mutant of ProgressiveUpdate: every page rendered so far shows the thumb
\* rendered last.
ProgressiveUpdateWithLatest(items, id, thumbs, stillRendering) ==
  LET idx == FindIndex(items, id)
  IN IF idx = -1 THEN items
     ELSE [items EXCEPT ![idx + 1] =
             [@ EXCEPT
                !.pages = [i \in 1..Len(@) |->
                             IF @[i].pageNumber <= Len(thumbs)
                             THEN [pageNumber |-> @[i].pageNumber,
                                   thumb |-> thumbs[Len(thumbs)]]
                             ELSE @[i]],
                !.isRendering = stillRendering]]

\* Mutant of ProgressiveUpdate: the pages are rebuilt in natural order.
ProgressiveUpdateRebuilding(items, id, thumbs, stillRendering) ==
  LET idx == FindIndex(items, id)
  IN IF idx = -1 THEN items
     ELSE [items EXCEPT ![idx + 1] =
             [@ EXCEPT
                !.pages = [i \in 1..Len(@) |->
                             [pageNumber |-> i,
                              thumb |-> IF i <= Len(thumbs) THEN thumbs[i]
                                        ELSE NoThumb]],
                !.isRendering = stillRendering]]

\* The progressive update: every page whose number is at most thumbs.length
\* gets its thumb; the record is looked up by id and the update is dropped
\* when it is not in the list.
ProgressiveUpdate(items, id, thumbs, stillRendering) ==
  LET idx == FindIndex(items, id)
  IN IF idx = -1 THEN items
     ELSE [items EXCEPT ![idx + 1] =
             [@ EXCEPT
                !.pages = [i \in 1..Len(@) |->
                             IF @[i].pageNumber <= Len(thumbs)
                             THEN [pageNumber |-> @[i].pageNumber,
                                   thumb |-> thumbs[@[i].pageNumber]]
                             ELSE @[i]],
                !.isRendering = stillRendering]]

\* The final update and the one of the catch block: isRendering false.
MarkRendered(items, id) ==
  LET idx == FindIndex(items, id)
  IN IF idx = -1 THEN items
     ELSE [items EXCEPT ![idx + 1].isRendering = FALSE]

\* The end of one iteration of the loop of call c (the c-th in flight): the
\* next file is read, or the records added are appended and the first record
\* of the list selected when nothing was selected in the render handleFiles
\* was called from.  items is the list after the updates this continuation
\* queued before.
ProtoAfterFile(c, items, added) ==
  IF up[c].left - 1 > 0
  THEN /\ up' = [up EXCEPT ![c] = [@ EXCEPT !.pc = "read", !.left = @ - 1,
                                            !.added = added]]
       /\ fileItems' = items
       /\ UNCHANGED selectedIndex
  ELSE /\ up' = SpliceOut(up, c - 1)
       /\ fileItems' = IF Len(added) > 0 THEN items \o added ELSE items
       /\ selectedIndex' = IF Len(added) > 0 /\ up[c].sel = Null THEN 0
                           ELSE selectedIndex

\* handleFiles(files) up to its first await, readAsUint8Array(f).
ProtoHandleFiles(n) ==
  /\ Len(up) < MaxCalls
  /\ up' = IF n = 0 THEN up
           ELSE Append(up, [pc |-> "read", left |-> n, added |-> <<>>,
                            sel |-> selectedIndex])
  /\ last' = Ev("none", NoSave)
  /\ UNCHANGED <<fileItems, selectedIndex, nextId, exp, mrg, renders>>

\* readAsUint8Array of call c settles.
ProtoUploadRead(c) ==
  /\ up[c].pc = "read"
  /\ \/ /\ up' = [up EXCEPT ![c].pc = "open"]
        /\ last' = Ev("none", NoSave)
        /\ UNCHANGED <<fileItems, selectedIndex>>
     \/ /\ ProtoAfterFile(c, fileItems, up[c].added)
        /\ last' = Ev("Failed to read or load PDF", NoSave)
  /\ UNCHANGED <<nextId, exp, mrg, renders>>

\* getDocument of call c settles: the record is built and its rendering
\* task started.  A task with no page to render runs to its final update at
\* once, before the record is in the list.
ProtoUploadOpened(c) ==
  /\ up[c].pc = "open"
  /\ \/ /\ ProtoAfterFile(c, fileItems, up[c].added)
        /\ last' = Ev("Failed to read or load PDF", NoSave)
        /\ UNCHANGED <<nextId, renders>>
     \/ \E totalPages \in 0..MaxPages :
          LET item == ProtoItem(nextId + 1, totalPages)
          IN /\ nextId' = nextId + 1
             /\ IF totalPages = 0
                THEN /\ ProtoAfterFile(c, MarkRendered(fileItems, item.id),
                                       Append(up[c].added, item))
                     /\ UNCHANGED renders
                ELSE /\ ProtoAfterFile(c, fileItems, Append(up[c].added, item))
                     /\ renders' = renders \cup
                          {[id |-> item.id, bytes |-> item.bytes,
                            totalPages |-> totalPages, thumbs |-> <<>>]}
             /\ last' = Ev("none", NoSave)
  /\ UNCHANGED <<exp, mrg>>

\* renderThumbForPage(bytes, p) of one task settles: the progressive
\* update, then the next page or the final update; a failure ends the task.
RenderPage(t) ==
  /\ t \in renders
  /\ \/ LET thumbs == Append(t.thumbs, RenderThumbForPage(t.bytes, Len(t.thumbs) + 1))
            p == Len(thumbs)
            shown == ProgressiveUpdate(fileItems, t.id, thumbs, p < t.totalPages)
        IN /\ IF p < t.totalPages
              THEN /\ fileItems' = shown
                   /\ renders' = (renders \ {t}) \cup {[t EXCEPT !.thumbs = thumbs]}
              ELSE /\ fileItems' = MarkRendered(shown, t.id)
                   /\ renders' = renders \ {t}
           /\ last' = Ev("none", NoSave)
     \/ /\ fileItems' = MarkRendered(fileItems, t.id)
        /\ renders' = renders \ {t}
        /\ last' = ThumbErr(t.id, Len(t.thumbs))
  /\ UNCHANGED <<selectedIndex, nextId, up, exp, mrg>>

\* exportReordered(idx) of the prototype up to PDFDocument.load(srcBytes):
\* while the record is rendering the user is asked whether to go on.
ProtoExportReordered(idx, cont) ==
  /\ exp.pc = "idle"
  /\ IF idx = Null \/ ~Has(fileItems, idx)
     THEN ExportReturn("No file selected.")
     ELSE LET item == At(fileItems, idx)
              pageIndices == PageIndices(item.pages)
          IN IF Len(item.pages) = 0
             THEN ExportReturn("No page data found.")
             ELSE IF item.isRendering /\ ~cont
             THEN /\ last' = Ev("none", NoSave)
                  /\ UNCHANGED exp
             ELSE IF SomeNegative(pageIndices)
             THEN ExportReturn("Export failed: invalid page numbers.")
             ELSE /\ exp' = [pc |-> "load", id |-> item.id, bytes |-> item.bytes,
                             shown |-> At(fileItems, selectedIndex).pages,
                             pageIndices |-> pageIndices, srcPageCount |-> 0,
                             newPdf |-> <<>>]
                  /\ last' = Ev("none", NoSave)
  /\ UNCHANGED <<fileItems, selectedIndex, nextId, up, mrg, renders>>

\* The export button is in the panel of the selected record and carries
\* disabled={fileItems[selectedIndex].isRendering}.
ExportButtonEnabled ==
  /\ Has(fileItems, selectedIndex)
  /\ ~At(fileItems, selectedIndex).isRendering

\* onClick={() => exportReordered(selectedIndex)} of the export button.
ExportButton(cont) ==
  /\ ExportButtonEnabled
  /\ ProtoExportReordered(selectedIndex, cont)

ProtoNext ==
  \/ \E n \in 0..MaxBatch :
       nextId + ProtoPending(up) + n <= MaxProtoIds /\ ProtoHandleFiles(n)
  \/ \E c \in 1..Len(up) : ProtoUploadRead(c)
  \/ \E c \in 1..Len(up) : ProtoUploadOpened(c)
  \/ \E t \in renders : RenderPage(t)
  \/ \E i \in 0..Len(fileItems) : SelectFile(i)
  \/ \E s \in ShownPositions, d \in ShownPositions \cup {NoDestination} : OnDragEnd(s, d)
  \/ \E cont \in BOOLEAN : ExportButton(cont)
  \/ ExportLoaded
  \/ ExportCreated
  \/ ExportCopied
  \/ ExportSaved

ProtoSpec == ProtoInit /\ [][ProtoNext]_vars

\* Ingestion alone: uploads, rendering and selection, with more records.
ProtoIngestNext ==
  \/ \E n \in 0..MaxBatch :
       nextId + ProtoPending(up) + n <= MaxIngestIds /\ ProtoHandleFiles(n)
  \/ \E c \in 1..Len(up) : ProtoUploadRead(c)
  \/ \E c \in 1..Len(up) : ProtoUploadOpened(c)
  \/ \E t \in renders : RenderPage(t)
  \/ \E i \in 0..Len(fileItems) : SelectFile(i)

ProtoIngestSpec == ProtoInit /\ [][ProtoIngestNext]_vars

\* The asynchronous steps are promise continuations: each one that is
\* pending is eventually run.
ProtoFairSpec ==
  /\ ProtoIngestSpec
  /\ WF_vars(\E c \in 1..Len(up) : ProtoUploadRead(c))
  /\ WF_vars(\E c \in 1..Len(up) : ProtoUploadOpened(c))
  /\ WF_vars(\E t \in renders : RenderPage(t))

\* ---------------------------------------------------------------- claims
\* The page numbers of a page sequence, in sequence order.
PageNumbers(pages) == [i \in 1..Len(pages) |-> pages[i].pageNumber]

\* C1: displayed order == exported order.  While an export is in flight the
\* index list handed to copyPages is, element for element, pageNumber - 1 of
\* the page sequence that was shown when export was requested, and the
\* document being saved holds exactly those pages of the source, in order.
C1_DisplayedOrderIsExportedOrder ==
  /\ exp.pc \in {"load", "create", "copy", "save"} =>
       /\ Len(exp.pageIndices) = Len(exp.shown)
       /\ \A i \in 1..Len(exp.shown) :
            exp.pageIndices[i] = exp.shown[i].pageNumber - 1
  /\ exp.pc = "save" =>
       /\ Len(exp.newPdf) = Len(exp.shown)
       /\ \A i \in 1..Len(exp.shown) :
            exp.newPdf[i] = <<exp.bytes, exp.shown[i].pageNumber - 1>>

\* C1 witness: a reordered record (page 2 shown before page 1) has been
\* copied and is being saved.
C1_Witness ==
  /\ exp.pc = "save"
  /\ PageNumbers(exp.shown) = <<2, 1>>
  /\ exp.newPdf = <<<<exp.bytes, 1>>, <<exp.bytes, 0>>>>

RECURSIVE IsMergeOf(_, _)
IsMergeOf(doc, records) ==
  IF records = <<>> THEN doc = <<>>
  ELSE LET f == Head(records)
           takes(n) ==
             /\ Len(doc) >= n
             /\ \A i \in 1..n :
                  doc[i] = <<f.bytes,
                             IF Len(f.pages) > 0 THEN f.pages[i].pageNumber - 1
                             ELSE i - 1>>
             /\ IsMergeOf(SubSeq(doc, n + 1, Len(doc)), Tail(records))
       IN IF Len(f.pages) > 0 THEN takes(Len(f.pages))
          ELSE \E n \in 0..MaxPages : takes(n)

\* Number of selected records whose pages are already in the merged document.
MergedSoFar ==
  IF mrg.pc \in {"save", "reload"} THEN Len(mrg.selected)
  ELSE IF mrg.pc \in {"load", "copy"} THEN mrg.k - 1
  ELSE 0

\* C3: the merged document is the concatenation, in file-list order of the
\* flagged records, of each record's (pageNumber - 1) list in sequence order.
C3_MergeOrder ==
  /\ \A i, j \in 1..Len(mrg.selected) :
       i < j => mrg.selected[i].id < mrg.selected[j].id
  /\ \A i \in 1..Len(mrg.selected) : mrg.selected[i].selectedForMerge
  /\ IsMergeOf(mrg.mergedPdf, SubSeq(mrg.selected, 1, MergedSoFar))

\* C3 witness: F1 with pages [2,1] then F2 with pages [1,2] give F1p2, F1p1,
\* F2p1, F2p2, ready to be serialized.
C3_Witness ==
  /\ mrg.pc = "save"
  /\ Len(mrg.selected) = 2
  /\ PageNumbers(mrg.selected[1].pages) = <<2, 1>>
  /\ PageNumbers(mrg.selected[2].pages) = <<1, 2>>
  /\ mrg.mergedPdf = <<<<mrg.selected[1].bytes, 1>>, <<mrg.selected[1].bytes, 0>>,
                       <<mrg.selected[2].bytes, 0>>, <<mrg.selected[2].bytes, 1>>>>

\* C4: when a merge succeeds the merged record is the last of the file list
\* and the selected index designates it (stated of the state the successful
\* merge step leaves).
C4_MergedIsSelected ==
  last.save.kind = "merged" =>
    /\ Len(fileItems) > 0
    /\ fileItems[Len(fileItems)].id = last.save.id
    /\ Has(fileItems, selectedIndex)
    /\ At(fileItems, selectedIndex).id = last.save.id

\* C5: the selected index is null or a valid position of the file list.
C5_SelectedIndexValid ==
  selectedIndex = Null \/ Has(fileItems, selectedIndex)

\* C6: removing the selected record (confirmed) leaves selected the record
\* that shifted into its position, or the new last record when the removed
\* one was last, or nothing when the list becomes empty.
C6_RemoveSelected ==
  [][(last'.op = "removeFile" /\ last'.a = last'.b) =>
       /\ Has(fileItems, selectedIndex)
       /\ last'.a = selectedIndex
       /\ fileItems' = SpliceOut(fileItems, selectedIndex)
       /\ IF Len(fileItems') = 0 THEN selectedIndex' = Null
          ELSE IF selectedIndex + 1 < Len(fileItems)
          THEN /\ selectedIndex' = selectedIndex
               /\ At(fileItems', selectedIndex') = At(fileItems, selectedIndex + 1)
          ELSE /\ selectedIndex' = Len(fileItems') - 1
               /\ At(fileItems', selectedIndex') = At(fileItems, selectedIndex - 1)
     ]_vars

\* C6 witness: the selected record was the last of several and has been
\* removed; the new last record is selected.
C6_Witness ==
  /\ last.op = "removeFile"
  /\ last.a = last.b
  /\ last.a = Len(fileItems)
  /\ Len(fileItems) > 0
  /\ selectedIndex = Len(fileItems) - 1

\* The alerts of the failures of the export path: the two validations, the
\* empty copy, and the four routes into the catch block.
ExportValidationAlerts ==
  {"Export failed: invalid page numbers.",
   "Export failed: requested page does not exist in source",
   "Export failed: unable to copy pages from source PDF."}
ExportThrownAlerts ==
  {"Export failed: load error. Offering original file as fallback.",
   "Export failed: copy error. Offering original file as fallback.",
   "Export failed: save error. Offering original file as fallback.",
   "Export failed: Generated PDF is empty. Offering original file as fallback."}

\* C7: on any failure of the export path the user is told the reason and the
\* original bytes are then offered as a download.
C7_ExportFailureFallsBack ==
  last.alert \in ExportValidationAlerts \cup ExportThrownAlerts =>
    last.save.kind = "original"

\* The alerts of the two range checks.
ExportOutOfRangeAlert == "Export failed: requested page does not exist in source"
MergeAbortedAlert == "Merge aborted: invalid page index"

\* C8: an index >= the re-derived page count aborts export and merge.  No
\* copy is ever made with such an index (for merge: of no record, so the
\* abort is at the first offending one); the aborting step offers no
\* download, leaves the file list and the selected index as they were and
\* ends the operation, so nothing is appended later.
C8_OutOfRangeAborts ==
  /\ [](/\ exp.pc \in {"create", "copy", "save"} =>
            \A i \in 1..Len(exp.pageIndices) :
              exp.pageIndices[i] >= 0 /\ exp.pageIndices[i] < exp.srcPageCount
        /\ mrg.pc = "copy" =>
            \A i \in 1..Len(mrg.indices) :
              mrg.indices[i] >= 0 /\ mrg.indices[i] < mrg.srcPageCount)
  /\ [][last'.alert = ExportOutOfRangeAlert =>
          /\ exp.pc = "load" /\ exp'.pc = "idle"
          /\ last'.save = NoSave
          /\ UNCHANGED <<fileItems, selectedIndex, nextId>>]_vars
  /\ [][last'.alert = MergeAbortedAlert =>
          /\ mrg.pc = "load" /\ mrg'.pc = "idle"
          /\ last'.save = NoSave
          /\ UNCHANGED <<fileItems, selectedIndex, nextId>>]_vars

\* C8 witness: a merge of two records was aborted; no record was created
\* beyond the two uploads.
C8_Witness ==
  /\ last.alert = MergeAbortedAlert
  /\ mrg.pc = "idle"
  /\ Len(fileItems) = 2
  /\ nextId = 2

\* The alert of the merge guard.
MergeRejectedAlert == "Select at least 2 files to merge."

\* C9: with fewer than 2 records flagged no merge starts (so nothing is
\* created, opened or serialized), and the rejection changes neither the
\* file list nor the selected index and offers no download.
C9_MergeNeedsTwo ==
  /\ [][(mrg.pc = "idle" /\ Len(Flagged(fileItems)) < 2) => mrg'.pc = "idle"]_vars
  /\ [][last'.alert = MergeRejectedAlert =>
          /\ Len(Flagged(fileItems)) < 2
          /\ last'.save = NoSave
          /\ UNCHANGED <<fileItems, selectedIndex, nextId, mrg>>]_vars

\* C9 witness: a merge was requested and rejected with one record flagged.
C9_Witness ==
  /\ last.alert = MergeRejectedAlert
  /\ Len(Flagged(fileItems)) = 1
  /\ mrg.pc = "idle"

\* C10: a merge that fails never appends.  Only the step that downloads the
\* merged document changes the file list on behalf of a merge, and it is
\* taken only after a non-empty serialization; every other step of a merge,
\* the failing ones included, leaves the list and the selection alone.
C10_FailedMergeAppendsNothing ==
  /\ [](mrg.pc = "reload" => mrg.outLen > 0)
  /\ [][(mrg' # mrg /\ last'.save.kind # "merged") =>
          UNCHANGED <<fileItems, selectedIndex, nextId>>]_vars
  /\ [][last'.save.kind = "merged" =>
          /\ mrg.pc = "reload"
          /\ Len(fileItems') = Len(fileItems) + 1
          /\ SubSeq(fileItems', 1, Len(fileItems)) = fileItems]_vars

\* C10 witness: a merge of two records failed on a zero-byte result and the
\* list still holds the two uploads only.
C10_Witness ==
  /\ last.alert = "Merge failed: Merged PDF is empty."
  /\ mrg.pc = "idle"
  /\ Len(fileItems) = 2
  /\ nextId = 2

\* The sequence without its element at 0-based position i.
Without(seq, i) ==
  [k \in 1..(Len(seq) - 1) |-> IF k <= i THEN seq[k] ELSE seq[k + 1]]

\* C11: a drag from position s to position d of the selected record's page
\* sequence is an array move: the page that was at s is at d afterwards, the
\* other pages keep their relative order, and nothing else changes.
C11_DragMovesPage ==
  [][\A s, d \in ShownPositions :
       (Has(fileItems, selectedIndex) /\ OnDragEnd(s, d)) =>
         LET p == At(fileItems, selectedIndex).pages
             q == At(fileItems', selectedIndex).pages
         IN /\ Len(q) = Len(p)
            /\ q[d + 1] = p[s + 1]
            /\ Without(q, d) = Without(p, s)
            /\ Len(fileItems') = Len(fileItems)
            /\ \A r \in 1..Len(fileItems) :
                 /\ r # selectedIndex + 1 => fileItems'[r] = fileItems[r]
                 /\ fileItems'[r].id = fileItems[r].id
            /\ selectedIndex' = selectedIndex
    ]_vars

\* C11 witness: a drag has left the pages of a three-page record in the
\* order 2, 3, 1, which a move of the first page to the end gives and no
\* exchange of two pages of the natural order does.
C11_Witness ==
  /\ last.op = "onDragEnd"
  /\ Has(fileItems, selectedIndex)
  /\ PageNumbers(At(fileItems, selectedIndex).pages) = <<2, 3, 1>>

\* C12: a drag that ends without destination, or while no record is
\* selected, changes neither a page sequence nor the file list nor the
\* selected index; as this holds of every such step it holds of any number
\* of them in a row.
C12_CancelledDragIsNoOp ==
  [][\A s \in ShownPositions, d \in ShownPositions \cup {NoDestination} :
       ((d = NoDestination \/ selectedIndex = Null) /\ OnDragEnd(s, d)) =>
         UNCHANGED <<fileItems, selectedIndex>>
    ]_vars

\* C12 witness: a gesture without destination has ended on a record whose
\* pages had been reordered; the order is still there.
C12_Witness ==
  /\ last.op = "onDragEndNoDestination"
  /\ Has(fileItems, selectedIndex)
  /\ PageNumbers(At(fileItems, selectedIndex).pages) = <<3, 1, 2>>

\* C13: while a rendering task of a listed record has pages left the
\* record's flag is true, and under fair scheduling of the asynchronous
\* steps every record's flag is eventually false for good (all tasks end:
\* the last page renders or a page fails), whatever the interleaving of the
\* rendering tasks and the appends of a batch.
C13_RenderingFlagSettles ==
  /\ [](\A r \in 1..Len(fileItems) :
          (\E t \in renders : t.id = fileItems[r].id) => fileItems[r].isRendering)
  /\ \A id \in 1..MaxIngestIds :
       <>[](\A r \in 1..Len(fileItems) :
              fileItems[r].id = id => ~fileItems[r].isRendering)

\* C14: every record created by ingestion has at least one Page Ref (a
\* document of zero pages gives no record).
C14_NoEmptyRecord ==
  \A r \in 1..Len(fileItems) : Len(fileItems[r].pages) >= 1

\* Of a step of an upload: the number of files announced as too large, and
\* the number of files the call has still to go through afterwards.
Announced == IF last'.alert = "too large" THEN last'.a ELSE 0
LeftAfter == IF up'.pc = "idle" THEN 0 ELSE up'.left

\* C15: in an upload batch a rejected file (over the ceiling, unreadable,
\* not a document) appends no record and leaves the file list and the
\* selected index alone, and no other file is lost: a step of the batch
\* either goes on with the file that was read, or uses up the file it was
\* waiting for and the oversize files that follow it, each announced, and
\* goes on with the next; a valid file is appended.
C15_RejectedFileIsIsolated ==
  /\ [][\A n \in 0..MaxBatch :
          (up.pc = "idle" /\ HandleFiles(n)) =>
            /\ n - LeftAfter = Announced
            /\ UNCHANGED <<fileItems, selectedIndex, nextId>>]_vars
  /\ [][(up.pc = "read" /\ up' # up) =>
          /\ IF up'.pc = "load" THEN up'.left = up.left
             ELSE up.left - LeftAfter = 1 + Announced
          /\ UNCHANGED <<fileItems, selectedIndex, nextId>>]_vars
  /\ [][(up.pc = "load" /\ up' # up) =>
          /\ up.left - LeftAfter = 1 + Announced
          /\ \/ UNCHANGED <<fileItems, selectedIndex, nextId>>
             \/ /\ nextId' = nextId + 1
                /\ Len(fileItems') = Len(fileItems) + 1
                /\ SubSeq(fileItems', 1, Len(fileItems)) = fileItems
                /\ fileItems'[Len(fileItems')].id = nextId'
                /\ Len(fileItems'[Len(fileItems')].pages) >= 1
                /\ selectedIndex' = IF selectedIndex = Null THEN 0
                                    ELSE selectedIndex]_vars

\* C15 witness: the first file of a batch of two was over the ceiling; no
\* record was made and the second file is being read.
C15_Witness ==
  /\ last.alert = "too large"
  /\ last.a = 1
  /\ up.pc = "read"
  /\ up.left = 1
  /\ fileItems = <<>>
  /\ selectedIndex = Null

\* C16: the step that appends the records of a batch selects the first of
\* them when no record was selected, and leaves the selected index as it was
\* when a record was selected.
C16_FirstIngestedIsSelected ==
  [][Len(fileItems') > Len(fileItems) =>
       IF selectedIndex = Null
       THEN selectedIndex' = Len(fileItems)
       ELSE selectedIndex' = selectedIndex]_vars

\* C17: an update of a rendering task touches only the record with the
\* task's id: every other record, and the order and the length of the list,
\* stay as they were, and when no record has the id the list is unchanged.
C17_UpdateFindsRecordById ==
  [][\A t \in renders :
       RenderPage(t) =>
         /\ Len(fileItems') = Len(fileItems)
         /\ \A r \in 1..Len(fileItems) :
              /\ fileItems'[r].id = fileItems[r].id
              /\ fileItems[r].id # t.id => fileItems'[r] = fileItems[r]
         /\ (\A r \in 1..Len(fileItems) : fileItems[r].id # t.id) =>
              fileItems' = fileItems
    ]_vars

\* C17 witness: a task has rendered a page of a record that is not in the
\* list yet (its batch is still being read) while another record is listed,
\* flagged and without thumb: the update was dropped and touched nothing.
C17_Witness ==
  /\ \E t \in renders :
       /\ Len(t.thumbs) >= 1
       /\ \A r \in 1..Len(fileItems) : fileItems[r].id # t.id
  /\ \E r \in 1..Len(fileItems) :
       /\ fileItems[r].isRendering
       /\ fileItems[r].pages[1].thumb = NoThumb

\* The records there are: those of the list and those a call in flight has
\* built and not appended yet.
AllRecords ==
  {fileItems[r] : r \in 1..Len(fileItems)}
  \cup UNION {{up[c].added[k] : k \in 1..Len(up[c].added)} : c \in 1..Len(up)}

\* C18: when the rendering of a page of a record fails, the task ends (no
\* later page is rendered), the record's rendering flag is false from then
\* on (so the export button of its panel is enabled and its pages can be
\* dragged), and its thumbs are those it had.
C18_RenderFailureKeepsRecordUsable ==
  [][\A t \in renders :
       (RenderPage(t) /\ last'.op = "thumbErr") =>
         /\ \A u \in renders' : u.id # t.id
         /\ Len(fileItems') = Len(fileItems)
         /\ \A r \in 1..Len(fileItems) :
              fileItems'[r].pages = fileItems[r].pages
         /\ \A rec \in AllRecords' : rec.id = t.id => ~rec.isRendering
    ]_vars

\* The selected record is rendering.
SelectedIsRendering ==
  Has(fileItems, selectedIndex) /\ At(fileItems, selectedIndex).isRendering

\* C19: while the selected record is rendering the user can trigger export;
\* confirming sends the export on to the copy, declining changes nothing and
\* downloads nothing.
C19_ExportAdvisoryBlocked ==
  /\ []((SelectedIsRendering /\ exp.pc = "idle") =>
          (ENABLED ExportButton(TRUE)) /\ (ENABLED ExportButton(FALSE)))
  /\ [][(SelectedIsRendering /\ ExportButton(TRUE)) => exp'.pc = "load"]_vars
  /\ [][(SelectedIsRendering /\ ExportButton(FALSE)) =>
          /\ UNCHANGED <<fileItems, selectedIndex, exp>>
          /\ last'.save = NoSave]_vars

\* The page sequences that differ from pages in thumbs only.
ThumbVariants(bytes, pages) ==
  {[i \in 1..Len(pages) |->
      [pageNumber |-> pages[i].pageNumber,
       thumb |-> IF i \in withThumb
                 THEN RenderThumbForPage(bytes, pages[i].pageNumber)
                 ELSE NoThumb]] : withThumb \in SUBSET (1..Len(pages))}

\* C20: the index list of an export is a function of the page numbers
\* alone: every sequence that differs from a record's in thumbs only gives
\* the same list (the rendering flag is not an input of the list), and the
\* list of an export in flight is pageNumber - 1 of the sequence exported.
C20_IndicesIgnorePreviews ==
  /\ \A r \in 1..Len(fileItems) :
       \A v \in ThumbVariants(fileItems[r].bytes, fileItems[r].pages) :
         PageIndices(v) = PageIndices(fileItems[r].pages)
  /\ exp.pc \in {"load", "create", "copy", "save"} =>
       \A v \in ThumbVariants(exp.bytes, exp.shown) :
         exp.pageIndices = [i \in 1..Len(v) |-> v[i].pageNumber - 1]

\* C20 witness: a record whose rendering failed on its second page, pages
\* reordered, is being copied: page 2 without thumb, then page 1 with it.
C20_Witness ==
  /\ exp.pc = "copy"
  /\ Len(exp.shown) = 2
  /\ exp.shown[1] = [pageNumber |-> 2, thumb |-> NoThumb]
  /\ exp.shown[2].pageNumber = 1
  /\ exp.shown[2].thumb # NoThumb
  /\ exp.pageIndices = <<1, 0>>

\* The record of the list with the given id is there.
Listed(items, id) == \E r \in 1..Len(items) : items[r].id = id

\* C21: there is no cancellation, and the result of an export whose record
\* was removed meanwhile is discarded: a removal leaves the export in flight
\* as it is, and a download offered by an export (the customized document
\* or the original bytes) is of a record that is in the file list.
C21_RemovedRecordExportDiscarded ==
  /\ [][last'.op = "removeFile" => exp' = exp]_vars
  /\ [](last.save.kind \in {"customized", "original"} =>
          Listed(fileItems, last.save.id))

\* C22: a record no drag has touched has its pages in natural order (every
\* record starts with 1..totalPages and only a drag changes the pages of a
\* record), and an export of a sequence in natural order passes the
\* identity list 0..totalPages-1 to the copy, which gives those pages.
C22_UntouchedExportsIdentity ==
  /\ [][last'.op # "onDragEnd" =>
          \A r \in 1..Len(fileItems') :
            LET f == fileItems'[r]
            IN IF Listed(fileItems, f.id)
               THEN \A q \in 1..Len(fileItems) :
                      fileItems[q].id = f.id => f.pages = fileItems[q].pages
               ELSE /\ Len(f.pages) = f.totalPages
                    /\ \A i \in 1..Len(f.pages) : f.pages[i].pageNumber = i]_vars
  /\ []((/\ exp.pc \in {"load", "create", "copy", "save"}
         /\ \A i \in 1..Len(exp.shown) : exp.shown[i].pageNumber = i) =>
          /\ exp.pageIndices = [i \in 1..Len(exp.shown) |-> i - 1]
          /\ exp.pc = "save" =>
               exp.newPdf = [i \in 1..Len(exp.shown) |-> <<exp.bytes, i - 1>>])

\* C22 witness: a two-page record in natural order has been copied: pages 0
\* and 1 of its bytes are about to be saved.
C22_Witness ==
  /\ exp.pc = "save"
  /\ PageNumbers(exp.shown) = <<1, 2>>
  /\ exp.pageIndices = <<0, 1>>
  /\ exp.newPdf = <<<<exp.bytes, 0>>, <<exp.bytes, 1>>>>

\* C23: only a drag changes the order of the page numbers of a record: every
\* update of a rendering task (progress, completion, failure), and every
\* other step that is not a drag, leaves the page numbers of every listed
\* record in the order they had.
C23_OnlyDragChangesOrder ==
  /\ [][\A t \in renders :
          RenderPage(t) =>
            /\ Len(fileItems') = Len(fileItems)
            /\ \A r \in 1..Len(fileItems) :
                 PageNumbers(fileItems'[r].pages) = PageNumbers(fileItems[r].pages)
       ]_vars
  /\ [][last'.op # "onDragEnd" =>
          /\ Len(fileItems') >= Len(fileItems)
          /\ \A r \in 1..Len(fileItems) :
               PageNumbers(fileItems'[r].pages) = PageNumbers(fileItems[r].pages)
       ]_vars

\* C23 witness: a record was reordered while its rendering was in flight and
\* an update has been applied since: page 2 comes first, page 1 has its
\* thumb, and the task has page 2 still to render.
C23_Witness ==
  \E r \in 1..Len(fileItems) :
    /\ PageNumbers(fileItems[r].pages) = <<2, 1>>
    /\ fileItems[r].pages[2].thumb # NoThumb
    /\ fileItems[r].pages[1].thumb = NoThumb
    /\ \E t \in renders : t.id = fileItems[r].id /\ Len(t.thumbs) = 1

\* The page numbers of a page sequence that carry a thumb.
Rendered(pages) ==
  {pages[i].pageNumber : i \in {j \in 1..Len(pages) : pages[j].thumb # NoThumb}}

\* C24: the page numbers of a record that carry a thumb are 1..k for some k
\* from 0 to the number of pages, wherever those pages are in the sequence.
C24_ThumbsAreAPrefix ==
  \A r \in 1..Len(fileItems) :
    \E k \in 0..Len(fileItems[r].pages) : Rendered(fileItems[r].pages) = 1..k

\* C24 witness: of a record reordered to 2, 1 only page 1, now second, has
\* its thumb.
C24_Witness ==
  \E r \in 1..Len(fileItems) :
    /\ PageNumbers(fileItems[r].pages) = <<2, 1>>
    /\ Rendered(fileItems[r].pages) = {1}

\* C25: a reorder is one step that replaces the page sequence of the
\* selected record and nothing else: the other records, the bytes, name, id,
\* page count and merge flag of every record, the length and order of the
\* list and the selected index are as before, and so is every call in flight.
C25_ReorderTouchesOnlyPages ==
  [][\A s \in ShownPositions, d \in ShownPositions \cup {NoDestination} :
       OnDragEnd(s, d) =>
         /\ Len(fileItems') = Len(fileItems)
         /\ \A r \in 1..Len(fileItems) :
              /\ r # selectedIndex + 1 => fileItems'[r] = fileItems[r]
              /\ fileItems'[r] = [fileItems[r] EXCEPT !.pages = fileItems'[r].pages]
         /\ selectedIndex' = selectedIndex
         /\ UNCHANGED <<nextId, up, exp, mrg, renders>>
    ]_vars

\* C25 witness: the second of two records, flagged for merge like the
\* first, is selected and a drag has put its page 2 first.
C25_Witness ==
  /\ last.op = "onDragEnd"
  /\ Len(fileItems) = 2
  /\ selectedIndex = 1
  /\ fileItems[1].selectedForMerge
  /\ fileItems[2].selectedForMerge
  /\ PageNumbers(fileItems[1].pages) = <<1, 2>>
  /\ PageNumbers(fileItems[2].pages) = <<2, 1>>

\* C26: every thumb stored in a Page Ref is the image rendered from the
\* record's bytes for that Page Ref's own page number.
C26_ThumbIsOfOwnPage ==
  \A r \in 1..Len(fileItems) :
    \A i \in 1..Len(fileItems[r].pages) :
      LET pg == fileItems[r].pages[i]
      IN pg.thumb # NoThumb =>
           pg.thumb = RenderThumbForPage(fileItems[r].bytes, pg.pageNumber)

\* C26 witness: a record reordered to 2, 1 while it was rendering is fully
\* rendered; each page shows its own image.
C26_Witness ==
  \E r \in 1..Len(fileItems) :
    /\ ~fileItems[r].isRendering
    /\ fileItems[r].pages =
         <<[pageNumber |-> 2, thumb |-> RenderThumbForPage(fileItems[r].bytes, 2)],
           [pageNumber |-> 1, thumb |-> RenderThumbForPage(fileItems[r].bytes, 1)]>>

\* C27: a confirmed removal of a record other than the selected one takes
\* that record out of the list and keeps the selected record selected: the
\* selected index goes down by one when the removed index is below it and
\* stays when it is above; a removal that is not confirmed (or of no record)
\* changes neither the list nor the selected index.
C27_RemoveOtherKeepsSelection ==
  /\ [][(last'.op = "removeFile" /\ last'.a # last'.b) =>
          /\ last'.b = selectedIndex
          /\ fileItems' = SpliceOut(fileItems, last'.a)
          /\ Len(fileItems') = Len(fileItems) - 1
          /\ selectedIndex = Null => selectedIndex' = Null
          /\ (selectedIndex # Null /\ last'.a < selectedIndex) =>
               selectedIndex' = selectedIndex - 1
          /\ (selectedIndex # Null /\ last'.a > selectedIndex) =>
               selectedIndex' = selectedIndex
          /\ Has(fileItems, selectedIndex) =>
               /\ Has(fileItems', selectedIndex')
               /\ At(fileItems', selectedIndex').id = At(fileItems, selectedIndex).id
       ]_vars
  /\ [][last'.op = "removeFileNoop" => UNCHANGED <<fileItems, selectedIndex>>]_vars

\* C27 witness: the first of three records was removed while the third was
\* selected; the same record is selected, now second.
C27_Witness ==
  /\ last.op = "removeFile"
  /\ last.a = 0
  /\ last.b = 2
  /\ selectedIndex = 1
  /\ Len(fileItems) = 2
  /\ fileItems[2].id = 3

====
